---- MODULE Spec2Model ----
(***************************************************************************)
(* Model of fetch-logs-with-cache: the range algebra (subtractRanges,      *)
(* mergeRanges), the sqlite-backed range store of LogCache, the paged      *)
(* fetch walk (LogCache.fetchLogs) and the cache coordinator               *)
(* (fetchLogsToCache, readLogsFromCache, getLogs), running against a       *)
(* ledger whose head and finalized block advance and whose unfinalized     *)
(* blocks can be reorganized.                                              *)
(***************************************************************************)
EXTENDS Integers, Sequences, FiniteSets, TLC

\* ------------------------------------------------------------------ bounds
MaxBlock == 2
MaxPageSize == 2
MaxQueries == 2
MaxHave == 3

VARIABLES
  \* the ledger behind the provider
  head,               \* number of the latest block
  finalized,          \* number of the last finalized block
  forkAt,             \* blocks >= forkAt carry the content of the reorganized fork
  \* the sqlite tables, partitioned by filterId
  fetched_ranges,     \* filterId -> sequence of rows [fromBlock, toBlock] in insertion order
  logs,               \* filterId -> set of rows [blockNumber, logIndex, data]
  \* the running query
  pc, op, net, filter, pageSize,
  lastFinalizedBlock, \* getLogs: line 523
  strictFilter,       \* getLogs: line 530
  callFilter,         \* the filter argument of fetchLogsToCache
  ftcStrict,          \* fetchLogsToCache: line 436
  missingRanges, i, totalScannedBlocks, blocksToScan,
  mode,               \* which fetchLogs walk runs: "cache" or "live"
  fromBlock, walkTo, thisToBlock, allLogs, thisBatchLogs,
  cachedLogs, result, err,
  nQueries,
  \* observation of the query
  upstream,           \* the provider.getLogs calls issued by the query, in order
  batches,            \* the batch callbacks the query invoked, in order
  startRanges, startLogs, \* the tables when the query started
  \* the range algebra applied to arbitrary inputs
  aWant, aHave, aOut, aOp,
  \* two fetchLogsToCache calls running concurrently in one host
  qs,                 \* call -> its position and local variables
  committed,          \* the pages the two calls have committed
  lastWrite           \* the last write to the store: "none", "page" or "tidy"

ledgerVars == <<head, finalized, forkAt>>
storeVars == <<fetched_ranges, logs>>
queryVars == <<pc, op, net, filter, pageSize, lastFinalizedBlock, strictFilter,
               callFilter, ftcStrict, missingRanges, i, totalScannedBlocks,
               blocksToScan, mode, fromBlock, walkTo, thisToBlock, allLogs,
               thisBatchLogs, cachedLogs, result, err, nQueries,
               upstream, batches, startRanges, startLogs>>
algebraVars == <<aWant, aHave, aOut, aOp>>
twoVars == <<qs, committed, lastWrite>>
vars == <<ledgerVars, storeVars, queryVars, algebraVars, twoVars>>

\* ------------------------------------------------------------- utilities
Min(a, b) == IF a < b THEN a ELSE b
Max(a, b) == IF a > b THEN a ELSE b
Range(s) == {s[k] : k \in 1..Len(s)}

BlockRange(f, t) == [fromBlock |-> f, toBlock |-> t]
ValidRanges == {BlockRange(f, t) : f \in 0..MaxBlock, t \in 0..MaxBlock} \cap
               {r \in [fromBlock : 0..MaxBlock, toBlock : 0..MaxBlock] : r.fromBlock <= r.toBlock}
BlocksOf(r) == r.fromBlock .. r.toBlock
Covered(rs) == UNION {BlocksOf(rs[k]) : k \in 1..Len(rs)}

\* ---------------------------------------------------------- range algebra
\* the inner loop of subtractRanges: x removed from every interval of z
RECURSIVE subtractInner(_, _)
subtractInner(x, z) ==
  IF z = <<>> THEN <<>>
  ELSE LET z_ == Head(z)
           part == IF x.toBlock < z_.fromBlock \/ x.fromBlock > z_.toBlock
                   THEN <<z_>>
                   ELSE (IF x.fromBlock > z_.fromBlock
                         THEN <<BlockRange(z_.fromBlock, x.fromBlock - 1)>>
                         ELSE <<>>)
                        \o
                        (IF x.toBlock < z_.toBlock
                         THEN <<BlockRange(x.toBlock + 1, z_.toBlock)>>
                         ELSE <<>>)
       IN part \o subtractInner(x, Tail(z))

RECURSIVE subtractLoop(_, _)
subtractLoop(z, have) ==
  IF have = <<>> THEN z
  ELSE subtractLoop(subtractInner(Head(have), z), Tail(have))

\* a subtractRanges whose left remainder keeps the first removed block
RECURSIVE subtractInnerOffByOne(_, _)
subtractInnerOffByOne(x, z) ==
  IF z = <<>> THEN <<>>
  ELSE LET z_ == Head(z)
           part == IF x.toBlock < z_.fromBlock \/ x.fromBlock > z_.toBlock
                   THEN <<z_>>
                   ELSE (IF x.fromBlock > z_.fromBlock
                         THEN <<BlockRange(z_.fromBlock, x.fromBlock)>>
                         ELSE <<>>)
                        \o
                        (IF x.toBlock < z_.toBlock
                         THEN <<BlockRange(x.toBlock + 1, z_.toBlock)>>
                         ELSE <<>>)
       IN part \o subtractInnerOffByOne(x, Tail(z))

RECURSIVE subtractLoopOffByOne(_, _)
subtractLoopOffByOne(z, have) ==
  IF have = <<>> THEN z
  ELSE subtractLoopOffByOne(subtractInnerOffByOne(Head(have), z), Tail(have))

subtractRangesOffByOne(want, have) == subtractLoopOffByOne(<<want>>, have)

\* a subtractRanges that cuts each range of have out of the first remaining
\* interval only
RECURSIVE subtractLoopFirstFragment(_, _)
subtractLoopFirstFragment(z, have) ==
  IF have = <<>> \/ z = <<>> THEN z
  ELSE subtractLoopFirstFragment(subtractInner(Head(have), <<Head(z)>>) \o Tail(z),
                                 Tail(have))

subtractRangesFirstFragment(want, have) == subtractLoopFirstFragment(<<want>>, have)

subtractRanges(want, have) == subtractLoop(<<want>>, have)

\* Array.prototype.sort with (a, b) => a.fromBlock - b.fromBlock (stable)
RECURSIVE insertByFromBlock(_, _)
insertByFromBlock(r, s) ==
  IF s = <<>> THEN <<r>>
  ELSE IF Head(s).fromBlock <= r.fromBlock
       THEN <<Head(s)>> \o insertByFromBlock(r, Tail(s))
       ELSE <<r>> \o s

RECURSIVE sortLoop(_, _)
sortLoop(sorted, rest) ==
  IF rest = <<>> THEN sorted
  ELSE sortLoop(insertByFromBlock(Head(rest), sorted), Tail(rest))

sortByFromBlock(ranges) == sortLoop(<<>>, ranges)

\* the sweep of mergeRanges over the sorted ranges
RECURSIVE mergeSweep(_, _, _)
mergeSweep(mergedRanges, currentRange, rest) ==
  IF rest = <<>> THEN Append(mergedRanges, currentRange)
  ELSE LET nextRange == Head(rest)
       IN IF nextRange.fromBlock <= currentRange.toBlock + 1
          THEN mergeSweep(mergedRanges,
                          BlockRange(currentRange.fromBlock,
                                     Max(currentRange.toBlock, nextRange.toBlock)),
                          Tail(rest))
          ELSE mergeSweep(Append(mergedRanges, currentRange), nextRange, Tail(rest))

\* a mergeRanges that coalesces overlapping ranges only, not adjacent ones
RECURSIVE mergeSweepNoAdjacency(_, _, _)
mergeSweepNoAdjacency(mergedRanges, currentRange, rest) ==
  IF rest = <<>> THEN Append(mergedRanges, currentRange)
  ELSE LET nextRange == Head(rest)
       IN IF nextRange.fromBlock <= currentRange.toBlock
          THEN mergeSweepNoAdjacency(mergedRanges,
                          BlockRange(currentRange.fromBlock,
                                     Max(currentRange.toBlock, nextRange.toBlock)),
                          Tail(rest))
          ELSE mergeSweepNoAdjacency(Append(mergedRanges, currentRange),
                                     nextRange, Tail(rest))

mergeRangesNoAdjacency(ranges) ==
  IF Len(ranges) <= 1 THEN ranges
  ELSE LET sortedRanges == sortByFromBlock(ranges)
       IN mergeSweepNoAdjacency(<<>>, sortedRanges[1], Tail(sortedRanges))

\* a mergeRanges whose sweep pushes a coalesced range at once and goes on with
\* the range after it
RECURSIVE mergeSweepPairwise(_, _, _)
mergeSweepPairwise(mergedRanges, currentRange, rest) ==
  IF rest = <<>> THEN Append(mergedRanges, currentRange)
  ELSE LET nextRange == Head(rest)
           joined == BlockRange(currentRange.fromBlock,
                                Max(currentRange.toBlock, nextRange.toBlock))
       IN IF nextRange.fromBlock <= currentRange.toBlock + 1
          THEN IF Tail(rest) = <<>> THEN Append(mergedRanges, joined)
               ELSE mergeSweepPairwise(Append(mergedRanges, joined),
                                       Head(Tail(rest)), Tail(Tail(rest)))
          ELSE mergeSweepPairwise(Append(mergedRanges, currentRange),
                                  nextRange, Tail(rest))

mergeRangesPairwise(ranges) ==
  IF Len(ranges) <= 1 THEN ranges
  ELSE LET sortedRanges == sortByFromBlock(ranges)
       IN mergeSweepPairwise(<<>>, sortedRanges[1], Tail(sortedRanges))

mergeRanges(ranges) ==
  IF Len(ranges) <= 1 THEN ranges
  ELSE LET sortedRanges == sortByFromBlock(ranges)
       IN mergeSweep(<<>>, sortedRanges[1], Tail(sortedRanges))

\* ------------------------------------------------------------ the ledger
ChainIds == {1, 2}
Address == "0xa"

\* the logs the ledger holds in block b of chain c for the filter's address
LogsOfBlock(c, b) ==
  LET v == IF b >= forkAt THEN 1 ELSE 0
      n == (b + c + v) % 3
  IN [k \in 1..n |-> [blockNumber |-> b, index |-> k - 1, data |-> v]]

\* provider.getLogs over [f, t]: ordered by block and index, blocks up to head
RECURSIVE providerGetLogs(_, _, _)
providerGetLogs(c, f, t) ==
  IF f > t \/ f > head THEN <<>>
  ELSE LogsOfBlock(c, f) \o providerGetLogs(c, f + 1, t)

\* block tags: a number, or one of the symbolic tags
Num(n) == [tag |-> "number", n |-> n]
Tag(s) == [tag |-> s, n |-> 0]

tagToNumber(tag) ==
  IF tag.tag = "number" THEN tag.n
  ELSE IF tag.tag = "earliest" THEN 0
  ELSE IF tag.tag = "finalized" THEN finalized
  ELSE head

\* JavaScript's  value || dflt  on a block tag: 0 and undefined are falsy
orDefault(tag, dflt) ==
  IF tag.tag = "undefined" \/ (tag.tag = "number" /\ tag.n = 0) THEN Tag(dflt) ELSE tag

toStrictFilter(f, defaultToBlock) ==
  [fromBlock |-> tagToNumber(orDefault(f.fromBlock, "earliest")),
   toBlock |-> tagToNumber(orDefault(f.toBlock, defaultToBlock))]

getFinalizedBlockNumber == finalized

\* a filter id that leaves the chain id out of the hashed string
getFilterIdNoChain(chainId, address) == <<1, address>>

getFilterId(chainId, address) == <<chainId, address>>
FilterIds == {getFilterId(c, Address) : c \in ChainIds}

\* ------------------------------------------------------------- the store
\* INSERT OR IGNORE of one log after another, keyed by (blockNumber, logIndex)
RECURSIVE insertLogs(_, _)
insertLogs(rows, batch) ==
  IF batch = <<>> THEN rows
  ELSE LET log == Head(batch)
           dup == \E r \in rows : r.blockNumber = log.blockNumber /\ r.logIndex = log.index
           row == [blockNumber |-> log.blockNumber, logIndex |-> log.index, data |-> log]
       IN insertLogs(IF dup THEN rows ELSE rows \cup {row}, Tail(batch))

rowBefore(a, b) ==
  a.blockNumber < b.blockNumber \/ (a.blockNumber = b.blockNumber /\ a.logIndex < b.logIndex)

RECURSIVE orderRows(_)
orderRows(rows) ==
  IF rows = {} THEN <<>>
  ELSE LET first == CHOOSE r \in rows : \A o \in rows \ {r} : rowBefore(r, o)
       IN <<first>> \o orderRows(rows \ {first})

selectLogs(rows, f, t) ==
  orderRows({r \in rows : f <= r.blockNumber /\ r.blockNumber <= t})

insertRange(rows, f, t) == Append(rows, BlockRange(f, t))

selectRanges(rows) == sortByFromBlock(rows)

\* a replace that deletes the filter's rows and inserts none
replaceRangesDeleteOnly(rows, ranges) == <<>>

replaceRanges(rows, ranges) == ranges

getMissingRanges(rows, want) == subtractRanges(want, selectRanges(rows))

\* a tidy pass that leaves the rows as they are
tidyUpRangesSkipped(rows) == rows

tidyUpRanges(rows) ==
  LET ranges == selectRanges(rows)
  IN IF Len(ranges) = 0 THEN rows ELSE replaceRanges(rows, mergeRanges(ranges))

\* ------------------------------------------------------------ the queries
NoFilter == [fromBlock |-> Num(0), toBlock |-> Num(0)]
NoStrict == BlockRange(0, 0)

FromTags == {Num(n) : n \in 0..MaxBlock}
ToTags == {Num(n) : n \in 0..MaxBlock} \cup {Tag("latest"), Tag("finalized")}
Filters == [fromBlock : FromTags, toBlock : ToTags]
PageSizes == 0..MaxPageSize

filterId == getFilterId(net, Address)

\* the two concurrent calls and the local variables of a call that has not started
Calls == {1, 2}
NoCall == [pc |-> "idle", filter |-> NoFilter, pageSize |-> 1, ftcStrict |-> NoStrict,
           missingRanges |-> <<>>, i |-> 0, fromBlock |-> 0, walkTo |-> 0,
           thisToBlock |-> 0, err |-> ""]

Init ==
  /\ head = 1 /\ finalized = 0 /\ forkAt = MaxBlock + 1
  /\ fetched_ranges = [f \in FilterIds |-> <<>>]
  /\ logs = [f \in FilterIds |-> {}]
  /\ pc = "idle" /\ op = "none" /\ net = 1 /\ filter = NoFilter /\ pageSize = 1
  /\ lastFinalizedBlock = 0 /\ strictFilter = NoStrict
  /\ callFilter = NoFilter /\ ftcStrict = NoStrict
  /\ missingRanges = <<>> /\ i = 0 /\ totalScannedBlocks = 0 /\ blocksToScan = 0
  /\ mode = "none" /\ fromBlock = 0 /\ walkTo = 0 /\ thisToBlock = 0
  /\ allLogs = <<>> /\ thisBatchLogs = <<>> /\ cachedLogs = <<>>
  /\ result = <<>> /\ err = "" /\ nQueries = 0
  /\ upstream = <<>> /\ batches = <<>>
  /\ startRanges = fetched_ranges /\ startLogs = logs
  /\ aWant = BlockRange(0, 0) /\ aHave = <<>> /\ aOut = <<>> /\ aOp = "none"
  /\ qs = [q \in Calls |-> NoCall] /\ committed = {} /\ lastWrite = "none"

\* --- the ledger moves on its own
AdvanceHead ==
  /\ head < MaxBlock
  /\ head' = head + 1
  /\ UNCHANGED <<finalized, forkAt, storeVars, queryVars, algebraVars, twoVars>>

AdvanceFinalized ==
  /\ finalized < head
  /\ finalized' = finalized + 1
  /\ UNCHANGED <<head, forkAt, storeVars, queryVars, algebraVars, twoVars>>

\* the blocks from b up to the head are replaced by another fork
Reorg ==
  /\ \E b \in (finalized + 1)..head :
       /\ b < forkAt
       /\ forkAt' = b
  /\ UNCHANGED <<head, finalized, storeVars, queryVars, algebraVars, twoVars>>

\* --- LogCache.getLogs
\* the finalized block is read (line 523)
GetLogs ==
  /\ pc = "idle" /\ nQueries < MaxQueries
  /\ \E n \in ChainIds, f \in Filters, ps \in PageSizes :
       /\ net' = n /\ filter' = f /\ pageSize' = ps
  /\ op' = "getLogs"
  /\ lastFinalizedBlock' = finalized
  /\ startRanges' = fetched_ranges /\ startLogs' = logs
  /\ pc' = "gl_strict"
  /\ UNCHANGED <<ledgerVars, storeVars, algebraVars, strictFilter, callFilter,
                 ftcStrict, missingRanges, i, totalScannedBlocks, blocksToScan,
                 mode, fromBlock, walkTo, thisToBlock, allLogs, thisBatchLogs,
                 cachedLogs, result, err, nQueries, upstream, batches, twoVars>>

\* a page size check that lets 0 through
invalidPageSizeNegativeOnly(ps) == ps < 0

invalidPageSize(ps) == ps < 1

\* the request's tags are resolved (line 530) and fetchLogsToCache is entered
\* with the upper bound cut at the finalized block (lines 533-541, 431-433)
GetLogsStrict ==
  /\ pc = "gl_strict"
  /\ LET sf == toStrictFilter(filter, "latest")
     IN /\ strictFilter' = sf
        /\ callFilter' = [fromBlock |-> Num(sf.fromBlock),
                          toBlock |-> Num(Min(sf.toBlock, lastFinalizedBlock))]
  /\ IF invalidPageSize(pageSize)
     THEN pc' = "error" /\ err' = "InvalidArgument"
     ELSE pc' = "ftc_strict" /\ err' = err
  /\ UNCHANGED <<ledgerVars, storeVars, algebraVars, op, net, filter, pageSize,
                 lastFinalizedBlock, ftcStrict, missingRanges, i,
                 totalScannedBlocks, blocksToScan, mode, fromBlock, walkTo,
                 thisToBlock, allLogs, thisBatchLogs, cachedLogs, result,
                 nQueries, upstream, batches, startRanges, startLogs, twoVars>>

\* --- LogCache.fetchLogsToCache called directly (lines 425-433)
FetchLogsToCache ==
  /\ pc = "idle" /\ nQueries < MaxQueries
  /\ \E n \in ChainIds, f \in Filters, ps \in PageSizes :
       /\ net' = n /\ filter' = f /\ callFilter' = f /\ pageSize' = ps
       /\ IF invalidPageSize(ps)
          THEN pc' = "error" /\ err' = "InvalidArgument"
          ELSE pc' = "ftc_strict" /\ err' = err
  /\ op' = "fetchLogsToCache"
  /\ startRanges' = fetched_ranges /\ startLogs' = logs
  /\ UNCHANGED <<ledgerVars, storeVars, algebraVars, lastFinalizedBlock,
                 strictFilter, ftcStrict, missingRanges, i, totalScannedBlocks,
                 blocksToScan, mode, fromBlock, walkTo, thisToBlock, allLogs,
                 thisBatchLogs, cachedLogs, result, nQueries, upstream, batches, twoVars>>

\* toStrictFilter with the default upper bound 'finalized' (lines 436-440)
FtcStrict ==
  /\ pc = "ftc_strict"
  /\ ftcStrict' = toStrictFilter(callFilter, "finalized")
  /\ pc' = "ftc_final"
  /\ UNCHANGED <<ledgerVars, storeVars, algebraVars, op, net, filter, pageSize,
                 lastFinalizedBlock, strictFilter, callFilter, missingRanges, i,
                 totalScannedBlocks, blocksToScan, mode, fromBlock, walkTo,
                 thisToBlock, allLogs, thisBatchLogs, cachedLogs, result, err,
                 nQueries, upstream, batches, startRanges, startLogs, twoVars>>

\* a finality bound that lets the block after the finalized one through
notFinalizedOffByOne(toBlock, lastFinalized) == toBlock > lastFinalized + 1

notFinalized(toBlock, lastFinalized) == toBlock > lastFinalized

\* the finality bound (lines 442-445)
FtcFinal ==
  /\ pc = "ftc_final"
  /\ IF notFinalized(ftcStrict.toBlock, getFinalizedBlockNumber)
     THEN pc' = "error" /\ err' = "FinalityViolation"
     ELSE pc' = "ftc_diff" /\ err' = err
  /\ UNCHANGED <<ledgerVars, storeVars, algebraVars, op, net, filter, pageSize,
                 lastFinalizedBlock, strictFilter, callFilter, ftcStrict,
                 missingRanges, i, totalScannedBlocks, blocksToScan, mode,
                 fromBlock, walkTo, thisToBlock, allLogs, thisBatchLogs,
                 cachedLogs, result, nQueries, upstream, batches, startRanges, startLogs, twoVars>>

RECURSIVE sumBlocks(_)
sumBlocks(ranges) ==
  IF ranges = <<>> THEN 0
  ELSE (Head(ranges).toBlock - Head(ranges).fromBlock + 1) + sumBlocks(Tail(ranges))

\* tidy, then the missing ranges and the blocks to scan (lines 447-457)
FtcDiff ==
  /\ pc = "ftc_diff"
  /\ LET tidied == tidyUpRanges(fetched_ranges[filterId])
         missing == getMissingRanges(tidied, ftcStrict)
     IN /\ fetched_ranges' = [fetched_ranges EXCEPT ![filterId] = tidied]
        /\ missingRanges' = missing
        /\ blocksToScan' = sumBlocks(missing)
  /\ totalScannedBlocks' = 0
  /\ i' = 0
  /\ pc' = "ftc_range"
  /\ UNCHANGED <<ledgerVars, logs, algebraVars, op, net, filter, pageSize,
                 lastFinalizedBlock, strictFilter, callFilter, ftcStrict, mode,
                 fromBlock, walkTo, thisToBlock, allLogs, thisBatchLogs,
                 cachedLogs, result, err, nQueries, upstream, batches, startRanges,
                 startLogs, twoVars>>

\* --- LogCache.fetchLogs: the head of the while loop (lines 591-606, 618).
\* Either the next page is requested from the provider, or the walk returns:
\* to the loop of fetchLogsToCache (idx + 1), or to getLogs with the result.
\* the walks of a query are numbered: the walk of missingRanges[idx] is
\* idx + 1, the walk outside the cache is 0
walkOf(m, idx) == IF m = "cache" THEN idx + 1 ELSE 0

\* a walk that asks for the page after the requested one at the same time
requestPagePrefetch(ups, m, idx, from, to) ==
  ups \o <<[mode |-> m, walk |-> walkOf(m, idx), fromBlock |-> from, toBlock |-> to],
           [mode |-> m, walk |-> walkOf(m, idx), fromBlock |-> to + 1,
            toBlock |-> to + 1 + (to - from)]>>

\* provider.getLogs({ ...filter, fromBlock, toBlock: thisToBlock }) (lines 602-606)
requestPage(ups, m, idx, from, to) ==
  Append(ups, [mode |-> m, walk |-> walkOf(m, idx), fromBlock |-> from, toBlock |-> to])

\* what the batch callback receives (line 612; lines 468-477 on the cached path)
onBatch(m, idx, all, batch, from, to, scanned, total) ==
  [mode |-> m, walk |-> walkOf(m, idx), logs |-> all, thisBatchLogs |-> batch,
   thisBatchFrom |-> from, thisBatchTo |-> to,
   i |-> IF m = "cache" THEN idx ELSE 0,
   totalScannedBlocks |-> IF m = "cache" THEN scanned ELSE 0,
   blocksToScan |-> IF m = "cache" THEN total ELSE 0]

loopHead(m, from, to, acc, idx, cached) ==
  /\ mode' = m /\ fromBlock' = from /\ walkTo' = to /\ allLogs' = acc
  /\ IF from <= to
     THEN /\ thisToBlock' = Min(from + pageSize - 1, to)
          /\ upstream' = requestPage(upstream, m, idx, from,
                                     Min(from + pageSize - 1, to))
          /\ pc' = "rpc" /\ i' = idx /\ result' = result
     ELSE /\ thisToBlock' = thisToBlock /\ upstream' = upstream
          /\ IF m = "cache"
             THEN pc' = "ftc_range" /\ i' = idx + 1 /\ result' = result
             ELSE pc' = "done" /\ i' = idx /\ result' = cached \o acc

\* the loop of fetchLogsToCache (lines 459-482): the next missing range is
\* handed to _fetchRangeToCache and fetchLogs resolves { ...filter, ...range }
\* (line 589); after the last range the ranges are tidied
FtcRange ==
  /\ pc = "ftc_range"
  /\ IF i < Len(missingRanges)
     THEN LET range == missingRanges[i + 1]
              sf == toStrictFilter([fromBlock |-> Num(range.fromBlock),
                                    toBlock |-> Num(range.toBlock)], "latest")
          IN /\ loopHead("cache", sf.fromBlock, sf.toBlock, <<>>, i, <<>>)
             /\ UNCHANGED fetched_ranges
     ELSE /\ fetched_ranges' = [fetched_ranges EXCEPT
                                  ![filterId] = tidyUpRanges(fetched_ranges[filterId])]
          /\ pc' = IF op = "getLogs" THEN "gl_read" ELSE "done"
          /\ UNCHANGED <<mode, fromBlock, walkTo, allLogs, thisToBlock,
                         upstream, i, result>>
  /\ UNCHANGED <<ledgerVars, logs, algebraVars, op, net, filter, pageSize,
                 lastFinalizedBlock, strictFilter, callFilter, ftcStrict,
                 missingRanges, totalScannedBlocks, blocksToScan, thisBatchLogs,
                 cachedLogs, err, nQueries, batches, startRanges, startLogs, twoVars>>

\* the transaction of _fetchRangeToCache's callback (lines 408-411)
\* a transaction that stores the page's logs and forgets the page's range
commitRangesSkipped(rows, f, t) == rows

commitRanges(rows, f, t) == insertRange(rows, f, t)
commitLogs(rows, batch) == insertLogs(rows, batch)

\* provider.getLogs answers (lines 602-612); on the cached path the page is
\* committed and the scanned blocks are counted (lines 408-411, 466) before
\* the caller's callback runs
PageReply ==
  /\ pc = "rpc"
  /\ LET batch == providerGetLogs(net, fromBlock, thisToBlock)
     IN /\ thisBatchLogs' = batch
        /\ batches' = Append(batches,
                             onBatch(mode, i, allLogs \o batch, batch, fromBlock,
                                     thisToBlock,
                                     totalScannedBlocks + (thisToBlock - fromBlock + 1),
                                     blocksToScan))
        /\ allLogs' = allLogs \o batch
        /\ IF mode = "cache"
           THEN /\ logs' = [logs EXCEPT ![filterId] = commitLogs(logs[filterId], batch)]
                /\ fetched_ranges' = [fetched_ranges EXCEPT ![filterId] =
                                        commitRanges(fetched_ranges[filterId],
                                                     fromBlock, thisToBlock)]
                /\ totalScannedBlocks' = totalScannedBlocks + (thisToBlock - fromBlock + 1)
           ELSE UNCHANGED <<logs, fetched_ranges, totalScannedBlocks>>
  /\ pc' = "callback"
  /\ UNCHANGED <<ledgerVars, algebraVars, op, net, filter, pageSize,
                 lastFinalizedBlock, strictFilter, callFilter, ftcStrict,
                 missingRanges, i, blocksToScan, mode, fromBlock, walkTo,
                 thisToBlock, cachedLogs, result, err, nQueries, upstream,
                 startRanges, startLogs, twoVars>>

\* provider.getLogs fails: the error propagates out of the query
PageFail ==
  /\ pc = "rpc"
  /\ pc' = "error" /\ err' = "UpstreamFetchFailure"
  /\ UNCHANGED <<ledgerVars, storeVars, algebraVars, op, net, filter, pageSize,
                 lastFinalizedBlock, strictFilter, callFilter, ftcStrict,
                 missingRanges, i, totalScannedBlocks, blocksToScan, mode,
                 fromBlock, walkTo, thisToBlock, allLogs, thisBatchLogs,
                 cachedLogs, result, nQueries, upstream, batches, startRanges, startLogs, twoVars>>

\* the caller's batch callback returns; the cursor moves on (line 615)
CallbackReturn ==
  /\ pc = "callback"
  /\ loopHead(mode, thisToBlock + 1, walkTo, allLogs, i, cachedLogs)
  /\ UNCHANGED <<ledgerVars, storeVars, algebraVars, op, net, filter, pageSize,
                 lastFinalizedBlock, strictFilter, callFilter, ftcStrict,
                 missingRanges, totalScannedBlocks, blocksToScan, thisBatchLogs,
                 cachedLogs, err, nQueries, batches, startRanges, startLogs, twoVars>>

\* LogCache.readLogsFromCache (lines 491-504)
readLogsFromCache(fid, f) ==
  LET sf == toStrictFilter(f, "latest")
      rows == selectLogs(logs[fid], sf.fromBlock, sf.toBlock)
  IN [k \in 1..Len(rows) |-> rows[k].data]

\* getLogs reads the finalized part from the cache (lines 544-547) and
\* fetches the part above the finalized block live (lines 551-566)
GetLogsRead ==
  /\ pc = "gl_read"
  /\ LET read == readLogsFromCache(filterId,
                   [fromBlock |-> Num(strictFilter.fromBlock),
                    toBlock |-> Num(Min(strictFilter.toBlock, lastFinalizedBlock))])
     IN /\ cachedLogs' = read
        /\ IF strictFilter.toBlock > lastFinalizedBlock
           THEN LET sf == toStrictFilter(
                            [fromBlock |-> Num(lastFinalizedBlock + 1),
                             toBlock |-> Num(strictFilter.toBlock)], "latest")
                IN loopHead("live", sf.fromBlock, sf.toBlock, <<>>, i, read)
           ELSE /\ result' = read /\ pc' = "done"
                /\ UNCHANGED <<mode, fromBlock, walkTo, allLogs, thisToBlock,
                               upstream, i>>
  /\ UNCHANGED <<ledgerVars, storeVars, algebraVars, op, net, filter, pageSize,
                 lastFinalizedBlock, strictFilter, callFilter, ftcStrict,
                 missingRanges, totalScannedBlocks, blocksToScan, thisBatchLogs,
                 err, nQueries, batches, startRanges, startLogs, twoVars>>

\* LogCache.fetchLogs called directly (lines 577-591): the page size is
\* checked, the filter's tags are resolved and the walk starts
FetchLogs ==
  /\ pc = "idle" /\ nQueries < MaxQueries
  /\ \E n \in ChainIds, f \in Filters, ps \in PageSizes :
       /\ net' = n /\ filter' = f /\ pageSize' = ps
       /\ IF invalidPageSize(ps)
          THEN /\ pc' = "error" /\ err' = "InvalidArgument"
               /\ UNCHANGED <<mode, fromBlock, walkTo, allLogs, thisToBlock,
                              upstream, i, result>>
          ELSE /\ err' = err
               /\ LET sf == toStrictFilter(f, "latest")
                      to == Min(sf.fromBlock + ps - 1, sf.toBlock)
                  IN /\ mode' = "live" /\ fromBlock' = sf.fromBlock
                     /\ walkTo' = sf.toBlock /\ allLogs' = <<>> /\ i' = i
                     /\ IF sf.fromBlock <= sf.toBlock
                        THEN /\ thisToBlock' = to
                             /\ upstream' = requestPage(upstream, "live", i,
                                                        sf.fromBlock, to)
                             /\ pc' = "rpc" /\ result' = result
                        ELSE /\ pc' = "done" /\ result' = <<>>
                             /\ UNCHANGED <<thisToBlock, upstream>>
  /\ op' = "fetchLogs"
  /\ startRanges' = fetched_ranges /\ startLogs' = logs
  /\ UNCHANGED <<ledgerVars, storeVars, algebraVars, lastFinalizedBlock,
                 strictFilter, callFilter, ftcStrict, missingRanges,
                 totalScannedBlocks, blocksToScan, thisBatchLogs, cachedLogs,
                 nQueries, batches, twoVars>>

\* LogCache.readLogsFromCache called directly
ReadLogsFromCache ==
  /\ pc = "idle" /\ nQueries < MaxQueries
  /\ \E n \in ChainIds, f \in Filters :
       /\ net' = n /\ filter' = f
       /\ result' = readLogsFromCache(getFilterId(n, Address), f)
  /\ op' = "readLogsFromCache"
  /\ startRanges' = fetched_ranges /\ startLogs' = logs
  /\ pc' = "done"
  /\ UNCHANGED <<ledgerVars, storeVars, algebraVars, pageSize,
                 lastFinalizedBlock, strictFilter, callFilter, ftcStrict,
                 missingRanges, i, totalScannedBlocks, blocksToScan, mode,
                 fromBlock, walkTo, thisToBlock, allLogs, thisBatchLogs,
                 cachedLogs, err, nQueries, upstream, batches, twoVars>>

\* the query has returned or thrown; the caller may issue the next one
Finish ==
  /\ pc \in {"done", "error"}
  /\ pc' = "idle" /\ op' = "none" /\ net' = 1 /\ filter' = NoFilter /\ pageSize' = 1
  /\ lastFinalizedBlock' = 0 /\ strictFilter' = NoStrict
  /\ callFilter' = NoFilter /\ ftcStrict' = NoStrict
  /\ missingRanges' = <<>> /\ i' = 0 /\ totalScannedBlocks' = 0 /\ blocksToScan' = 0
  /\ mode' = "none" /\ fromBlock' = 0 /\ walkTo' = 0 /\ thisToBlock' = 0
  /\ allLogs' = <<>> /\ thisBatchLogs' = <<>> /\ cachedLogs' = <<>>
  /\ result' = <<>> /\ err' = "" /\ nQueries' = nQueries + 1
  /\ upstream' = <<>> /\ batches' = <<>>
  /\ startRanges' = fetched_ranges /\ startLogs' = logs
  /\ UNCHANGED <<ledgerVars, storeVars, algebraVars, twoVars>>

Next ==
  \/ AdvanceHead \/ AdvanceFinalized \/ Reorg
  \/ GetLogs \/ GetLogsStrict \/ GetLogsRead
  \/ FetchLogsToCache \/ FtcStrict \/ FtcFinal \/ FtcDiff \/ FtcRange
  \/ PageReply \/ PageFail \/ CallbackReturn
  \/ FetchLogs \/ ReadLogsFromCache \/ Finish

Spec == Init /\ [][Next]_vars

\* the steps a started query takes by itself: every await of the query
\* resolves (the provider and the store answer, with a result or a failure,
\* and the caller's callback returns)
QueryStep ==
  \/ GetLogsStrict \/ GetLogsRead
  \/ FtcStrict \/ FtcFinal \/ FtcDiff \/ FtcRange
  \/ PageReply \/ PageFail \/ CallbackReturn

SpecFair == Spec /\ WF_vars(QueryStep)

\* --------------------------- two concurrent calls on one filter identity
\* Two fetchLogsToCache calls (the part of getLogs that writes the store) run
\* in one host on the same provider and filter. A step is what runs between
\* two awaits; the sqlite statements are synchronous, so a transaction and
\* the statements around it up to the next await are one step.
twoId == getFilterId(1, Address)

\* the head of the while loop of fetchLogs for call c (lines 591-606, 618)
twoLoopHead(c, from, to, idx) ==
  IF from <= to
  THEN [c EXCEPT !.fromBlock = from, !.walkTo = to, !.i = idx, !.pc = "rpc",
                 !.thisToBlock = Min(from + c.pageSize - 1, to)]
  ELSE [c EXCEPT !.fromBlock = from, !.walkTo = to, !.i = idx + 1,
                 !.pc = "ftc_range"]

\* fetchLogsToCache is called (lines 425-433)
TwoStart(q) ==
  /\ qs[q].pc = "idle"
  /\ \E f \in Filters, ps \in PageSizes :
       qs' = [qs EXCEPT ![q] =
                IF invalidPageSize(ps)
                THEN [@ EXCEPT !.filter = f, !.pageSize = ps, !.pc = "error",
                               !.err = "InvalidArgument"]
                ELSE [@ EXCEPT !.filter = f, !.pageSize = ps, !.pc = "ftc_strict"]]
  /\ UNCHANGED <<ledgerVars, storeVars, queryVars, algebraVars, committed, lastWrite>>

\* lines 436-440
TwoStrict(q) ==
  /\ qs[q].pc = "ftc_strict"
  /\ qs' = [qs EXCEPT ![q] = [@ EXCEPT !.ftcStrict = toStrictFilter(qs[q].filter, "finalized"),
                                       !.pc = "ftc_final"]]
  /\ UNCHANGED <<ledgerVars, storeVars, queryVars, algebraVars, committed, lastWrite>>

\* lines 442-445
TwoFinal(q) ==
  /\ qs[q].pc = "ftc_final"
  /\ qs' = [qs EXCEPT ![q] =
              IF notFinalized(@.ftcStrict.toBlock, getFinalizedBlockNumber)
              THEN [@ EXCEPT !.pc = "error", !.err = "FinalityViolation"]
              ELSE [@ EXCEPT !.pc = "ftc_diff"]]
  /\ UNCHANGED <<ledgerVars, storeVars, queryVars, algebraVars, committed, lastWrite>>

\* lines 447-457: the tidy transaction and the missing ranges
TwoDiff(q) ==
  /\ qs[q].pc = "ftc_diff"
  /\ LET tidied == tidyUpRanges(fetched_ranges[twoId])
     IN /\ fetched_ranges' = [fetched_ranges EXCEPT ![twoId] = tidied]
        /\ qs' = [qs EXCEPT ![q] =
                    [@ EXCEPT !.missingRanges = getMissingRanges(tidied, qs[q].ftcStrict),
                              !.i = 0, !.pc = "ftc_range"]]
        /\ lastWrite' = IF fetched_ranges[twoId] = <<>> THEN lastWrite ELSE "tidy"
  /\ UNCHANGED <<ledgerVars, logs, queryVars, algebraVars, committed>>

\* lines 459-482: the next missing range is walked, or the ranges are tidied
TwoRange(q) ==
  /\ qs[q].pc = "ftc_range"
  /\ IF qs[q].i < Len(qs[q].missingRanges)
     THEN LET range == qs[q].missingRanges[qs[q].i + 1]
              sf == toStrictFilter([fromBlock |-> Num(range.fromBlock),
                                    toBlock |-> Num(range.toBlock)], "latest")
          IN /\ qs' = [qs EXCEPT ![q] = twoLoopHead(@, sf.fromBlock, sf.toBlock, @.i)]
             /\ UNCHANGED <<fetched_ranges, lastWrite>>
     ELSE /\ fetched_ranges' = [fetched_ranges EXCEPT
                                  ![twoId] = tidyUpRanges(fetched_ranges[twoId])]
          /\ lastWrite' = IF fetched_ranges[twoId] = <<>> THEN lastWrite ELSE "tidy"
          /\ qs' = [qs EXCEPT ![q] = [@ EXCEPT !.pc = "done"]]
  /\ UNCHANGED <<ledgerVars, logs, queryVars, algebraVars, committed>>

\* provider.getLogs answers and the page's transaction commits (lines 602-612,
\* 408-411); the call then awaits the caller's callback
TwoPageReply(q) ==
  /\ qs[q].pc = "rpc"
  /\ LET c == qs[q]
         batch == providerGetLogs(1, c.fromBlock, c.thisToBlock)
     IN /\ logs' = [logs EXCEPT ![twoId] = commitLogs(logs[twoId], batch)]
        /\ fetched_ranges' = [fetched_ranges EXCEPT ![twoId] =
                                commitRanges(fetched_ranges[twoId], c.fromBlock,
                                             c.thisToBlock)]
        /\ committed' = committed \cup
                          {[fromBlock |-> c.fromBlock, toBlock |-> c.thisToBlock,
                            batch |-> batch, final |-> c.thisToBlock <= finalized]}
  /\ lastWrite' = "page"
  /\ qs' = [qs EXCEPT ![q] = [@ EXCEPT !.pc = "callback"]]
  /\ UNCHANGED <<ledgerVars, queryVars, algebraVars>>

\* provider.getLogs fails
TwoPageFail(q) ==
  /\ qs[q].pc = "rpc"
  /\ qs' = [qs EXCEPT ![q] = [@ EXCEPT !.pc = "error", !.err = "UpstreamFetchFailure"]]
  /\ UNCHANGED <<ledgerVars, storeVars, queryVars, algebraVars, committed, lastWrite>>

\* the caller's callback returns; the cursor moves on (line 615)
TwoCallbackReturn(q) ==
  /\ qs[q].pc = "callback"
  /\ qs' = [qs EXCEPT ![q] = twoLoopHead(@, @.thisToBlock + 1, @.walkTo, @.i)]
  /\ UNCHANGED <<ledgerVars, storeVars, queryVars, algebraVars, committed, lastWrite>>

NextTwo ==
  \/ AdvanceHead \/ AdvanceFinalized \/ Reorg
  \/ \E q \in Calls :
       \/ TwoStart(q) \/ TwoStrict(q) \/ TwoFinal(q) \/ TwoDiff(q) \/ TwoRange(q)
       \/ TwoPageReply(q) \/ TwoPageFail(q) \/ TwoCallbackReturn(q)

SpecTwo == Init /\ [][NextTwo]_vars

\* ------------------------------------------- the range algebra on its own
\* subtractRanges and mergeRanges applied to every valid want and every
\* sequence of at most MaxHave valid ranges
InitAlgebra ==
  /\ head = 1 /\ finalized = 0 /\ forkAt = MaxBlock + 1
  /\ fetched_ranges = [f \in FilterIds |-> <<>>]
  /\ logs = [f \in FilterIds |-> {}]
  /\ pc = "idle" /\ op = "none" /\ net = 1 /\ filter = NoFilter /\ pageSize = 1
  /\ lastFinalizedBlock = 0 /\ strictFilter = NoStrict
  /\ callFilter = NoFilter /\ ftcStrict = NoStrict
  /\ missingRanges = <<>> /\ i = 0 /\ totalScannedBlocks = 0 /\ blocksToScan = 0
  /\ mode = "none" /\ fromBlock = 0 /\ walkTo = 0 /\ thisToBlock = 0
  /\ allLogs = <<>> /\ thisBatchLogs = <<>> /\ cachedLogs = <<>>
  /\ result = <<>> /\ err = "" /\ nQueries = 0
  /\ upstream = <<>> /\ batches = <<>>
  /\ startRanges = fetched_ranges /\ startLogs = logs
  /\ aWant \in ValidRanges /\ aHave = <<>> /\ aOut = <<>> /\ aOp = "none"
  /\ qs = [q \in Calls |-> NoCall] /\ committed = {} /\ lastWrite = "none"

AddHave ==
  /\ aOp = "none" /\ Len(aHave) < MaxHave
  /\ \E r \in ValidRanges : aHave' = Append(aHave, r)
  /\ UNCHANGED <<aWant, aOut, aOp, ledgerVars, storeVars, queryVars, twoVars>>

ApplySubtract ==
  /\ aOp = "none"
  /\ aOut' = subtractRanges(aWant, aHave)
  /\ aOp' = "subtract"
  /\ UNCHANGED <<aWant, aHave, ledgerVars, storeVars, queryVars, twoVars>>

ApplyMerge ==
  /\ aOp = "none"
  /\ aOut' = mergeRanges(aHave)
  /\ aOp' = "merge"
  /\ UNCHANGED <<aWant, aHave, ledgerVars, storeVars, queryVars, twoVars>>

\* _tidyUpRanges on a ranges table that holds the rows aHave
ApplyTidy ==
  /\ aOp = "none"
  /\ aOut' = tidyUpRanges(aHave)
  /\ aOp' = "tidy"
  /\ UNCHANGED <<aWant, aHave, ledgerVars, storeVars, queryVars, twoVars>>

NextAlgebra == AddHave \/ ApplySubtract \/ ApplyMerge \/ ApplyTidy

SpecAlgebra == InitAlgebra /\ [][NextAlgebra]_vars

\* ------------------------------------------------------------- the claims
Overlap(r1, r2) == BlocksOf(r1) \cap BlocksOf(r2) # {}
PairwiseDisjoint(rs) ==
  \A j \in 1..Len(rs), k \in 1..Len(rs) : j # k => ~Overlap(rs[j], rs[k])
AllValid(rs) == \A k \in 1..Len(rs) : rs[k].fromBlock <= rs[k].toBlock

\* C9: subtractRanges(want, have) is the set difference: its output covers
\* exactly the blocks of want that no range of have covers, every output
\* interval has from <= to, the output intervals are pairwise disjoint and
\* none overlaps a range of have; subtract(w, []) = [w], subtract(w, [w]) = []
\* and have-ranges lying wholly before or after w leave [w].
C9_SubtractIsDifference ==
  aOp = "subtract" =>
    /\ Covered(aOut) = BlocksOf(aWant) \ Covered(aHave)
    /\ AllValid(aOut)
    /\ PairwiseDisjoint(aOut)
    /\ \A j \in 1..Len(aOut), k \in 1..Len(aHave) : ~Overlap(aOut[j], aHave[k])
    /\ (aHave = <<>> => aOut = <<aWant>>)
    /\ (aHave = <<aWant>> => aOut = <<>>)
    /\ ((\A k \in 1..Len(aHave) : aHave[k].toBlock < aWant.fromBlock
                                  \/ aHave[k].fromBlock > aWant.toBlock)
          => aOut = <<aWant>>)

\* a subtraction that splits want in two around a range of have
C9_Witness ==
  /\ aOp = "subtract" /\ Len(aHave) >= 2 /\ Len(aOut) = 2
  /\ \E k \in 1..Len(aHave) : aHave[k].fromBlock > aWant.fromBlock
                              /\ aHave[k].toBlock < aWant.toBlock

\* C10: mergeRanges returns, for every sequence of valid ranges in any order
\* (overlapping, contained, duplicated or adjacent), a sequence sorted by
\* fromBlock whose intervals are disjoint and non-adjacent and cover exactly
\* the blocks of the input; [1,5],[6,10] collapse to [1,10] while [1,5],[7,10]
\* stay separate.
C10_MergeMinimalCover ==
  /\ aOp = "merge" =>
       /\ Covered(aOut) = Covered(aHave)
       /\ AllValid(aOut)
       /\ \A k \in 1..(Len(aOut) - 1) : aOut[k + 1].fromBlock > aOut[k].toBlock + 1
  /\ mergeRanges(<<BlockRange(1, 5), BlockRange(6, 10)>>) = <<BlockRange(1, 10)>>
  /\ mergeRanges(<<BlockRange(1, 5), BlockRange(7, 10)>>)
       = <<BlockRange(1, 5), BlockRange(7, 10)>>

\* unsorted input with two adjacent ranges that collapse into one
C10_Witness ==
  /\ aOp = "merge" /\ Len(aHave) >= 2 /\ Len(aOut) = 1
  /\ aHave[1].fromBlock > aHave[2].fromBlock
  /\ aHave[1].fromBlock = aHave[2].toBlock + 1

\* --- the store against the ledger
rowOf(log) == [blockNumber |-> log.blockNumber, logIndex |-> log.index, data |-> log]
hasKey(rows, log) ==
  \E r \in rows : r.blockNumber = log.blockNumber /\ r.logIndex = log.index
cachePages == {k \in 1..Len(upstream) : upstream[k].mode = "cache"}
livePages == {k \in 1..Len(upstream) : upstream[k].mode = "live"}
pageBlocks(k) == upstream[k].fromBlock .. upstream[k].toBlock

\* C1: for every fetched range [a,b] stored for a filter, the store holds
\* every record the finalized ledger has for the filter in [a,b].
C1_Coverage ==
  \A c \in ChainIds :
    LET fid == getFilterId(c, Address)
    IN \A k \in 1..Len(fetched_ranges[fid]) :
         \A b \in BlocksOf(fetched_ranges[fid][k]) :
           b <= finalized =>
             \A j \in 1..Len(LogsOfBlock(c, b)) :
               rowOf(LogsOfBlock(c, b)[j]) \in logs[fid]

\* C2: unfinalized data is never cached: every fetched range, every cached
\* record and every page fetched for the cache lies at or below the last
\* finalized block.
C2_NoUnfinalizedCached ==
  /\ \A fid \in FilterIds :
       /\ \A k \in 1..Len(fetched_ranges[fid]) : fetched_ranges[fid][k].toBlock <= finalized
       /\ \A r \in logs[fid] : r.blockNumber <= finalized
  /\ \A k \in cachePages : upstream[k].toBlock <= finalized

\* C3: no cached block is fetched again: every page fetched for the cache
\* covers only blocks that no fetched range of the filter covered when the
\* call started; a fully covered range issues no upstream fetch and getLogs
\* returns the records it returned before.
C3_NoRefetch ==
  /\ \A k \in cachePages : pageBlocks(k) \cap Covered(startRanges[filterId]) = {}
  /\ (pc \in {"ftc_range", "rpc", "callback", "gl_read", "done"}
      /\ op \in {"getLogs", "fetchLogsToCache"}
      /\ ftcStrict.fromBlock <= ftcStrict.toBlock
      /\ BlocksOf(ftcStrict) \subseteq Covered(startRanges[filterId]))
       => /\ cachePages = {}
          /\ (pc = "done" /\ op = "getLogs" /\ livePages = {}) =>
               result = [k \in 1..Len(selectLogs(startLogs[filterId],
                                                 strictFilter.fromBlock,
                                                 strictFilter.toBlock))
                          |-> selectLogs(startLogs[filterId], strictFilter.fromBlock,
                                         strictFilter.toBlock)[k].data]

\* C4: after a successful fetchLogsToCache(F, [a,b]) with b finalized,
\* nothing of [a,b] is missing, readLogsFromCache(F, [a,b]) returns exactly
\* the ledger's records of [a,b] in ascending order, and from an empty cache
\* the one missing range is [a,b] and the ranges afterwards are [{a,b}].
C4_FetchToCachePost ==
  (/\ op = "fetchLogsToCache" /\ pc = "done"
   /\ filter.toBlock.tag = "number"
   /\ filter.fromBlock.n <= filter.toBlock.n
   /\ filter.toBlock.n <= finalized) =>
    LET a == filter.fromBlock.n
        b == filter.toBlock.n
    IN /\ getMissingRanges(fetched_ranges[filterId], BlockRange(a, b)) = <<>>
       /\ readLogsFromCache(filterId, filter) = providerGetLogs(net, a, b)
       /\ startRanges[filterId] = <<>> =>
            /\ missingRanges = <<BlockRange(a, b)>>
            /\ selectRanges(fetched_ranges[filterId]) = <<BlockRange(a, b)>>

logBefore(x, y) ==
  x.blockNumber < y.blockNumber \/ (x.blockNumber = y.blockNumber /\ x.index < y.index)

\* C5: getLogs on [a,t] with a <= lastFinalized < t fetches [a,lastFinalized]
\* for the cache and exactly [lastFinalized+1,t] live, no block in both; the
\* result is the cached records followed by the live ones in ascending
\* (blockNumber, logIndex) order, and no live block is in the fetched ranges.
C5_GetLogsSplit ==
  (/\ op = "getLogs" /\ pc = "done"
   /\ strictFilter.fromBlock <= lastFinalizedBlock
   /\ lastFinalizedBlock < strictFilter.toBlock) =>
    LET live == (lastFinalizedBlock + 1) .. strictFilter.toBlock
    IN /\ \A k \in cachePages :
            pageBlocks(k) \subseteq strictFilter.fromBlock .. lastFinalizedBlock
       /\ UNION {pageBlocks(k) : k \in livePages} = live
       /\ \A j \in 1..(Len(result) - 1) : logBefore(result[j], result[j + 1])
       /\ result = cachedLogs \o allLogs
       /\ \A j \in 1..Len(cachedLogs) : cachedLogs[j].blockNumber <= lastFinalizedBlock
       /\ Covered(fetched_ranges[filterId]) \cap live = {}

\* C6: a page's records and its range are committed together: every cached
\* record lies inside a fetched range of its filter, and once a page is
\* committed its range is stored and so is every record of the page.
C6_AtomicPageWrite ==
  /\ \A fid \in FilterIds : \A r \in logs[fid] :
       \E k \in 1..Len(fetched_ranges[fid]) :
         r.blockNumber \in BlocksOf(fetched_ranges[fid][k])
  /\ (pc = "callback" /\ mode = "cache") =>
       /\ BlockRange(fromBlock, thisToBlock) \in Range(fetched_ranges[filterId])
       /\ \A j \in 1..Len(thisBatchLogs) : hasKey(logs[filterId], thisBatchLogs[j])

\* a committed page that carried records
C6_Witness ==
  /\ pc = "callback" /\ mode = "cache" /\ thisBatchLogs # <<>>
  /\ Len(fetched_ranges[filterId]) >= 2

\* C7: fetchLogsToCache called directly with a resolved upper bound above the
\* last finalized block fails with FinalityViolation before any page is
\* fetched and with the tables of every filter unchanged.
C7_FinalityViolation ==
  op = "fetchLogsToCache" =>
    /\ pc \in {"ftc_diff", "ftc_range", "rpc", "callback", "done"} =>
         ftcStrict.toBlock <= finalized
    /\ err = "FinalityViolation" =>
         /\ pc = "error" /\ upstream = <<>> /\ result = <<>>
         /\ fetched_ranges = startRanges /\ logs = startLogs

\* the call is refused while the store holds data
C7_Witness ==
  /\ op = "fetchLogsToCache" /\ pc = "error" /\ err = "FinalityViolation"
  /\ startRanges[filterId] # <<>> /\ logs[filterId] # {}

\* C8: a failed page fetch aborts the query with no result; nothing is
\* written for the failed page, the pages committed before it keep their
\* ranges and records, and the store still satisfies the coverage invariant.
C8_FailFast ==
  (pc = "error" /\ err = "UpstreamFetchFailure") =>
    /\ result = <<>>
    /\ mode = "cache" =>
         fetched_ranges[filterId] =
           tidyUpRanges(startRanges[filterId]) \o
             [k \in 1..(Len(upstream) - 1) |->
                BlockRange(upstream[k].fromBlock, upstream[k].toBlock)]
    /\ \A k \in cachePages :
         k < Len(upstream) => pageBlocks(k) \subseteq Covered(fetched_ranges[filterId])
    /\ C1_Coverage

\* --- the tidy pass
NonAdjacent(rs) ==
  \A j \in 1..Len(rs), k \in 1..Len(rs) :
    (j # k /\ rs[j].fromBlock <= rs[k].fromBlock) =>
      ~(rs[k].fromBlock <= rs[j].toBlock + 1)

\* the query stands right after a tidy pass of its filter: after the pass that
\* precedes the diff (no page written yet) or after the pass that ends
\* fetchLogsToCache
afterTidy ==
  \/ pc = "ftc_range" /\ i = 0
  \/ pc = "gl_read"
  \/ pc = "done" /\ op = "fetchLogsToCache"

\* C11: after every tidy pass, and so at the end of every successful
\* fetchLogsToCache, the fetched ranges stored for the filter are pairwise
\* disjoint and non-adjacent: no two stored ranges r1, r2 with
\* r1.fromBlock <= r2.fromBlock have r2.fromBlock <= r1.toBlock + 1.
C11_TidyDisjointNonAdjacent ==
  afterTidy => NonAdjacent(fetched_ranges[filterId])

\* a fetchLogsToCache that ends after several pages next to a stored range
C11_Witness ==
  /\ pc = "done" /\ op = "fetchLogsToCache"
  /\ startRanges[filterId] # <<>> /\ Len(upstream) >= 2
  /\ Len(fetched_ranges[filterId]) = 1

\* a step that runs a tidy pass: the one before the diff, or the one that
\* ends fetchLogsToCache
tidyStep ==
  \/ pc = "ftc_diff" /\ pc' = "ftc_range"
  \/ pc = "ftc_range" /\ pc' \in {"gl_read", "done"}

\* C12: the cache only grows: across every step (page write, tidy, read,
\* aborted query) the blocks covered by a filter's fetched ranges and its
\* cached records never shrink; a tidy leaves the covered blocks exactly equal
\* and the records unchanged; inserting a record whose (filter, blockNumber,
\* logIndex) key exists changes nothing, so no key is ever stored twice.
C12_CacheOnlyGrows ==
  [][(\A fid \in FilterIds :
        /\ Covered(fetched_ranges[fid]) \subseteq Covered(fetched_ranges'[fid])
        /\ logs[fid] \subseteq logs'[fid]
        /\ \A r1 \in logs'[fid], r2 \in logs'[fid] :
             (r1.blockNumber = r2.blockNumber /\ r1.logIndex = r2.logIndex)
               => r1 = r2)
     /\ (tidyStep =>
           /\ \A g \in FilterIds :
                Covered(fetched_ranges'[g]) = Covered(fetched_ranges[g])
           /\ logs' = logs)
    ]_vars

\* the tidy before the diff has merged rows an aborted query left behind
C12_Witness ==
  /\ pc = "ftc_range" /\ i = 0
  /\ Len(fetched_ranges[filterId]) < Len(startRanges[filterId])
  /\ logs[filterId] # {}

\* --- the page walk
walksStarted == {upstream[k].walk : k \in 1..Len(upstream)}
pagesOf(w) == SelectSeq(upstream, LAMBDA u : u.walk = w)
batchesOf(w) == SelectSeq(batches, LAMBDA b : b.walk = w)

\* the range handed to fetchLogs for walk w, when it is given by numbers
numericRequest(w) == w >= 1 \/ op = "getLogs" \/ filter.toBlock.tag = "number"
requestedRange(w) ==
  IF w >= 1 THEN missingRanges[w]
  ELSE IF op = "getLogs" THEN BlockRange(lastFinalizedBlock + 1, strictFilter.toBlock)
  ELSE BlockRange(filter.fromBlock.n, filter.toBlock.n)

\* walk w has returned
walkEnded(w) == IF w >= 1 THEN i >= w ELSE pc = "done"

RECURSIVE concatBatches(_, _)
concatBatches(bs, k) ==
  IF k = 0 THEN <<>> ELSE concatBatches(bs, k - 1) \o bs[k].thisBatchLogs

\* C13: for pageSize >= 1 and a range [from, to] with from <= to, the pages
\* fetchLogs requests are consecutive and non-overlapping, start at from, each
\* ends at min(thisFrom + pageSize - 1, to), together cover exactly [from, to],
\* one upstream fetch is issued per page, the batch callback is invoked once
\* per page with that page's bounds and records, and the returned sequence is
\* the concatenation of the pages' records in page order.
C13_PageWalk ==
  \A w \in walksStarted :
    LET r == requestedRange(w)
        ps == pagesOf(w)
        bs == batchesOf(w)
    IN (numericRequest(w) /\ r.fromBlock <= r.toBlock /\ pageSize >= 1) =>
         /\ ps[1].fromBlock = r.fromBlock
         /\ \A k \in 1..Len(ps) :
              /\ ps[k].toBlock = Min(ps[k].fromBlock + pageSize - 1, r.toBlock)
              /\ k > 1 => ps[k].fromBlock = ps[k - 1].toBlock + 1
         /\ Len(bs) <= Len(ps) /\ Len(ps) <= Len(bs) + 1
         /\ \A k \in 1..Len(bs) :
              /\ bs[k].thisBatchFrom = ps[k].fromBlock
              /\ bs[k].thisBatchTo = ps[k].toBlock
              /\ bs[k].logs = concatBatches(bs, k)
              /\ \A j \in 1..Len(bs[k].thisBatchLogs) :
                   bs[k].thisBatchLogs[j].blockNumber \in
                     bs[k].thisBatchFrom .. bs[k].thisBatchTo
         /\ walkEnded(w) =>
              /\ ps[Len(ps)].toBlock = r.toBlock
              /\ Len(bs) = Len(ps)
              /\ w = 0 => result = cachedLogs \o concatBatches(bs, Len(bs))

\* C14: a pageSize below 1 makes fetchLogs, fetchLogsToCache and getLogs fail
\* with InvalidArgument; in fetchLogs and fetchLogsToCache the failure comes
\* before any upstream page fetch and before any store write (no range or
\* record is added, no tidy is run).
C14_InvalidPageSize ==
  /\ (op \in {"getLogs", "fetchLogsToCache", "fetchLogs"} /\ pageSize < 1
      /\ pc # "gl_strict")
       => pc = "error" /\ err = "InvalidArgument"
  /\ err = "InvalidArgument" =>
       /\ pc = "error" /\ pageSize < 1
       /\ upstream = <<>> /\ batches = <<>> /\ result = <<>>
       /\ fetched_ranges = startRanges /\ logs = startLogs

\* fetchLogsToCache refuses page size 0 while the filter has rows that a
\* tidy pass would merge
C14_Witness ==
  /\ op = "fetchLogsToCache" /\ pc = "error" /\ err = "InvalidArgument"
  /\ pageSize = 0
  /\ tidyUpRanges(fetched_ranges[filterId]) # fetched_ranges[filterId]

\* --- the order of the steps of one query
\* the page fetches that were issued and have not answered
inFlight == Len(upstream) - Len(batches)
             - (IF pc = "error" /\ err = "UpstreamFetchFailure" THEN 1 ELSE 0)

\* the ranges of the pages whose batch callback was invoked on the cached path
RECURSIVE committedPages(_)
committedPages(bs) ==
  IF bs = <<>> THEN <<>>
  ELSE (IF Head(bs).mode = "cache"
        THEN <<BlockRange(Head(bs).thisBatchFrom, Head(bs).thisBatchTo)>>
        ELSE <<>>) \o committedPages(Tail(bs))

\* C15: within one query at most one upstream page fetch is in flight; on the
\* cached path page k is fetched, then its store transaction commits, then the
\* batch callback for page k runs, and only then page k+1 is fetched; the
\* missing sub-ranges are processed one after another in list order.
C15_Sequencing ==
  /\ inFlight = (IF pc = "rpc" THEN 1 ELSE 0)
  /\ \A k \in 1..Len(batches) :
       /\ batches[k].walk = upstream[k].walk
       /\ batches[k].thisBatchFrom = upstream[k].fromBlock
       /\ batches[k].thisBatchTo = upstream[k].toBlock
  /\ (pc \in {"rpc", "callback"} /\ mode = "cache") =>
       fetched_ranges[filterId] =
         tidyUpRanges(startRanges[filterId]) \o committedPages(batches)
  /\ (pc = "callback" /\ mode = "cache") =>
       \A j \in 1..Len(thisBatchLogs) : hasKey(logs[filterId], thisBatchLogs[j])
  /\ \A k \in 1..Len(upstream), l \in 1..Len(upstream) :
       (k < l /\ upstream[l].mode = "cache") =>
          /\ upstream[k].mode = "cache"
          /\ upstream[k].walk <= upstream[l].walk
  /\ \A w \in walksStarted :
       w >= 1 => /\ w <= Len(missingRanges)
                 /\ pagesOf(w)[1].fromBlock = missingRanges[w].fromBlock
                 /\ w <= i + 1
                 /\ \A v \in 1..(w - 1) : v \in walksStarted \/
                      missingRanges[v].fromBlock > missingRanges[v].toBlock

\* the page of a second missing sub-range is in flight after two committed pages
C15_Witness ==
  /\ pc = "rpc" /\ mode = "cache" /\ i >= 1 /\ Len(batches) >= 2
  /\ batches[Len(batches)].walk = 1

\* --- the range algebra, continued
Perms(n) == {p \in [1..n -> 1..n] : \A j \in 1..n, k \in 1..n : p[j] = p[k] => j = k}
permute(rs, p) == [k \in 1..Len(rs) |-> rs[p[k]]]

\* C16: subtractRanges does not depend on the order of have: for every valid
\* want and every permutation p of have, subtractRanges(want, have) and
\* subtractRanges(want, p(have)) hold the same set of intervals.
C16_SubtractOrderIndependent ==
  aOp = "subtract" =>
    \A p \in Perms(Len(aHave)) :
      Range(subtractRanges(aWant, permute(aHave, p))) = Range(aOut)

\* want is cut by two different ranges of have and something of it is left
C16_Witness ==
  /\ aOp = "subtract" /\ Len(aHave) >= 2 /\ aOut # <<>>
  /\ aHave[1] # aHave[2]
  /\ Overlap(aHave[1], aWant) /\ Overlap(aHave[2], aWant)

\* C17: mergeRanges is idempotent: mergeRanges(mergeRanges(x)) equals
\* mergeRanges(x) as a sequence, and so a second tidy pass right after a tidy
\* pass leaves the stored ranges exactly as the first one left them.
C17_MergeIdempotent ==
  /\ aOp = "merge" => mergeRanges(aOut) = aOut
  /\ aOp = "tidy" => tidyUpRanges(aOut) = aOut

\* a tidy pass that has merged three unsorted rows into one
C17_Witness ==
  /\ aOp = "tidy" /\ Len(aHave) = 3 /\ Len(aOut) = 1
  /\ aHave[1].fromBlock > aHave[2].fromBlock

\* --- reading the cache
dataOf(rows) == [k \in 1..Len(rows) |-> rows[k].data]

\* C18: readLogsFromCache returns exactly the stored records of the filter
\* with fromBlock <= blockNumber <= toBlock in ascending (blockNumber,
\* logIndex) order, does not fail when the range is not covered by the
\* fetched ranges, issues no upstream fetch and leaves ranges and records
\* unchanged.
C18_PermissiveRead ==
  (op = "readLogsFromCache" /\ pc # "idle") =>
    /\ pc = "done" /\ err = ""
    /\ filter.toBlock.tag = "number" =>
         result = dataOf(selectLogs(logs[filterId], filter.fromBlock.n,
                                    filter.toBlock.n))
    /\ \A k \in 1..Len(result) :
         /\ rowOf(result[k]) \in logs[filterId]
         /\ result[k].blockNumber >= filter.fromBlock.n
    /\ \A k \in 1..(Len(result) - 1) : logBefore(result[k], result[k + 1])
    /\ upstream = <<>> /\ batches = <<>>
    /\ fetched_ranges = startRanges /\ logs = startLogs

\* --- one filter against the other
\* C19: every store operation of a query for filter identity F (page write,
\* tidy, missing ranges, read) leaves the fetched ranges and cached records of
\* every other identity unchanged and does not read them; filters that differ
\* only in network have different identities, so a query on one network never
\* sees or alters the coverage recorded for the other.
C19_FilterIsolation ==
  [][/\ \A c \in ChainIds :
          c # net =>
            /\ fetched_ranges'[getFilterId(c, Address)]
                 = fetched_ranges[getFilterId(c, Address)]
            /\ logs'[getFilterId(c, Address)] = logs[getFilterId(c, Address)]
     /\ \A c1 \in ChainIds, c2 \in ChainIds :
          c1 # c2 => getFilterId(c1, Address) # getFilterId(c2, Address)
     /\ (pc = "ftc_diff" /\ pc' = "ftc_range") =>
          BlocksOf(ftcStrict) \ Covered(fetched_ranges[getFilterId(net, Address)])
            \subseteq Covered(missingRanges')
     /\ ((pc = "gl_read" /\ pc' # "gl_read") \/ op' = "readLogsFromCache") =>
          \A k \in 1..Len(result') :
            rowOf(result'[k]) \in logs[getFilterId(net', Address)]
                                  \cup Range([j \in 1..Len(allLogs') |-> rowOf(allLogs'[j])])
    ]_vars

\* a query on network 2 has fetched a page of blocks that are covered for
\* network 1 and not for network 2
C19_Witness ==
  /\ pc = "callback" /\ mode = "cache" /\ net = 2
  /\ startRanges[getFilterId(2, Address)] = <<>>
  /\ fromBlock .. thisToBlock \subseteq Covered(startRanges[getFilterId(1, Address)])
  /\ logs[getFilterId(1, Address)] # {} /\ logs[getFilterId(2, Address)] # {}

\* --- the progress reported to the batch callback
cacheBatches == {k \in 1..Len(batches) : batches[k].mode = "cache"}
ftcReturned ==
  \/ op = "fetchLogsToCache" /\ pc = "done"
  \/ op = "getLogs" /\ pc \in {"gl_read", "done"}
  \/ op = "getLogs" /\ pc \in {"rpc", "callback"} /\ mode = "live"

\* C20: blocksToScan is the number of blocks in the missing ranges computed
\* at the start; over the successive batch callbacks totalScannedBlocks grows
\* by the size of each page, never exceeds blocksToScan and equals it at the
\* last callback of a successful call; the reported sub-range index never
\* decreases and each reported page lies inside missingRanges[index].
C20_ProgressAccounting ==
  /\ \A k \in cacheBatches :
       LET b == batches[k]
           prev == IF k = 1 THEN 0 ELSE batches[k - 1].totalScannedBlocks
       IN /\ AllValid(missingRanges) =>
               b.blocksToScan = Cardinality(Covered(missingRanges))
          /\ b.blocksToScan = sumBlocks(missingRanges)
          /\ b.totalScannedBlocks = prev + (b.thisBatchTo - b.thisBatchFrom + 1)
          /\ b.totalScannedBlocks > prev
          /\ b.totalScannedBlocks <= b.blocksToScan
          /\ k > 1 => batches[k - 1].i <= b.i
          /\ b.i + 1 \in 1..Len(missingRanges)
          /\ b.thisBatchFrom .. b.thisBatchTo \subseteq BlocksOf(missingRanges[b.i + 1])
  /\ (ftcReturned /\ cacheBatches # {}) =>
       batches[Cardinality(cacheBatches)].totalScannedBlocks = blocksToScan

\* --- getLogs against the requested range
\* the bounds of the request: the numbers given, or the number the tag
\* resolved to at line 530
requestedFrom == filter.fromBlock.n
requestedTo == IF filter.toBlock.tag = "number" THEN filter.toBlock.n
               ELSE strictFilter.toBlock

\* C22: getLogs stays inside the requested range [from, to] (also for
\* from > lastFinalized + 1, to = 0, from = 0 and lastFinalized = 0): every
\* record of the result has from <= blockNumber <= to, and every upstream
\* fetch of the query, on the cached path or the live path, covers only
\* blocks of [from, to].
C22_GetLogsInRange ==
  (op = "getLogs" /\ pc # "gl_strict") =>
    /\ \A k \in 1..Len(upstream) : pageBlocks(k) \subseteq requestedFrom .. requestedTo
    /\ pc = "done" =>
         \A k \in 1..Len(result) :
           result[k].blockNumber \in requestedFrom .. requestedTo

\* --- the course of one query
ceilDiv(n, d) == (n + d - 1) \div d

RECURSIVE pagesNeeded(_)
pagesNeeded(ranges) ==
  IF ranges = <<>> THEN 0
  ELSE ceilDiv(Max(0, Head(ranges).toBlock - Head(ranges).fromBlock + 1), pageSize)
       + pagesNeeded(Tail(ranges))

\* the sub-range getLogs fetches live, if any
liveRanges ==
  IF op = "getLogs" /\ strictFilter.toBlock > lastFinalizedBlock
  THEN <<BlockRange(lastFinalizedBlock + 1, strictFilter.toBlock)>>
  ELSE <<>>

\* the order of the phases: resolve tags, check the finality bound, tidy and
\* diff, fetch the missing ranges, tidy, read the cache, fetch live, done
phaseOrder ==
  \/ pc' = pc
  \/ pc = "idle" /\ pc' \in {"gl_strict", "ftc_strict", "error"}
  \/ pc = "gl_strict" /\ pc' \in {"ftc_strict", "error"}
  \/ pc = "ftc_strict" /\ pc' = "ftc_final"
  \/ pc = "ftc_final" /\ pc' \in {"ftc_diff", "error"}
  \/ pc = "ftc_diff" /\ pc' = "ftc_range"
  \/ pc = "ftc_range" /\ pc' = "rpc" /\ mode' = "cache"
  \/ pc = "ftc_range" /\ pc' = "gl_read" /\ op = "getLogs"
  \/ pc = "ftc_range" /\ pc' = "done" /\ op = "fetchLogsToCache"
  \/ pc = "rpc" /\ pc' \in {"callback", "error"}
  \/ pc = "callback" /\ mode = "cache" /\ pc' \in {"rpc", "ftc_range"}
  \/ pc = "callback" /\ mode = "live" /\ pc' \in {"rpc", "done"}
  \/ pc = "gl_read" /\ pc' = "done"
  \/ pc = "gl_read" /\ pc' = "rpc" /\ mode' = "live"
  \/ pc \in {"done", "error"} /\ pc' = "idle"

\* C23: with pageSize >= 1 and a provider and store that always answer, every
\* getLogs / fetchLogsToCache query eventually is done or aborts with an
\* error, its phases follow the order resolve tags, check finality bound,
\* tidy, diff, fetch missing, tidy, read cache, fetch live; on the success
\* path the number of upstream page fetches is the sum over the fetched
\* sub-ranges of ceil(length / pageSize).
C23_Termination ==
  /\ (op \in {"getLogs", "fetchLogsToCache"} /\ pc \notin {"idle", "done", "error"})
       ~> (pc \in {"done", "error"})
  /\ [][op' \in {"getLogs", "fetchLogsToCache"} => phaseOrder]_vars
  /\ []((op \in {"getLogs", "fetchLogsToCache"} /\ pc = "done") =>
          Len(upstream) = pagesNeeded(missingRanges \o liveRanges))


\* --- two concurrent calls
twoRanges == fetched_ranges[twoId]
twoEnded == \A q \in Calls : qs[q].pc \in {"done", "error"}
twoDone == \A q \in Calls : qs[q].pc = "done"

\* every committed page is still covered by the filter's ranges and each of
\* its records is still stored
committedKept ==
  \A p \in committed :
    /\ p.fromBlock .. p.toBlock \subseteq Covered(twoRanges)
    /\ \A j \in 1..Len(p.batch) : hasKey(logs[twoId], p.batch[j])

\* C21: two calls on the same filter identity interleaved at every await,
\* each store transaction atomic: in every interleaving every fetched range
\* is backed by the ledger's finalized records, no committed range or record
\* is lost to the other call's tidy, the ranges are never seen empty once a
\* page is committed, and once both calls have ended and a tidy was the last
\* write (or both succeeded) the ranges are disjoint and non-adjacent.
C21_ConcurrentQueries ==
  /\ C1_Coverage
  /\ committedKept
  /\ committed # {} => twoRanges # <<>>
  /\ (twoEnded /\ (twoDone \/ lastWrite = "tidy")) => NonAdjacent(twoRanges)

\* the same statement without the coverage conjunct
C21_StoreConsistency ==
  /\ committedKept
  /\ committed # {} => twoRanges # <<>>
  /\ (twoEnded /\ (twoDone \/ lastWrite = "tidy")) => NonAdjacent(twoRanges)

\* coverage when every committed page was finalized when it was committed
C21_CoverageOfFinalPages ==
  (\A p \in committed : p.final) => C1_Coverage

\* both calls committed pages, interleaved, and both ended after a tidy
C21_Interleaved ==
  /\ twoDone /\ lastWrite = "tidy"
  /\ Cardinality(committed) >= 2
  /\ Len(twoRanges) = 1

====
